---- MODULE Spec2Model ----
(***************************************************************************)
(* Scale based unit-of-measure conversion (base_uom_converter).            *)
(*                                                                         *)
(* The state is the configuration the ORM holds (uom.converter records and *)
(* uom.converter.line rows) together with the record of the last finished  *)
(* call of UomConverter.convert and, for the specification that compares   *)
(* two calls, the call before it.                                          *)
(*                                                                         *)
(* Numbers are Python floats, IEEE-754 binary64.  A finite value is        *)
(* <<s, m, e>>, standing for s * m * 2^e, with s the sign, m an odd        *)
(* natural number of at most 53 bits and e >= -1074; 0.0 and -0.0 are      *)
(* <<1, <<>>, 0>> and <<-1, <<>>, 0>>, the infinities <<s, <<>>, 1024>>    *)
(* and nan <<1, <<1>>, 1024>>.  *, + and / round their exact result to the *)
(* nearest double, a tie going to the even mantissa: a result of 2^1024 or *)
(* more in magnitude is an infinity, one below 2^-1022 has fewer bits and  *)
(* may round to a zero.  Mantissas are little-endian sequences of 15-bit   *)
(* limbs, since the exact product of two of them has up to 106 bits.       *)
(* Python ints (what ceil, floor and round return) are the values with     *)
(* e >= 0, and the one zero <<1, <<>>, 0>>.                                *)
(***************************************************************************)
EXTENDS Integers, FiniteSets, Sequences, TLC

VARIABLES converter, line, last, prev

vars == <<converter, line, last, prev>>

\* Number of uom.converter.line rows a configuration holds at most.
MaxLines == 2

-----------------------------------------------------------------------------
(* Natural numbers of any size, as little-endian sequences of limbs.       *)

LimbBits == 15

Base == 2^LimbBits

\* Bits of the significand of a binary64 float.
MantissaBits == 53

Limb(a, i) == IF i <= Len(a) THEN a[i] ELSE 0

Zeros(n) == [i \in 1..n |-> 0]

RECURSIVE BigTrim(_)
BigTrim(a) ==
    IF a = <<>> THEN a
    ELSE IF a[Len(a)] = 0 THEN BigTrim(SubSeq(a, 1, Len(a) - 1))
    ELSE a

RECURSIVE BigFromInt(_)
BigFromInt(n) == IF n = 0 THEN <<>> ELSE <<n % Base>> \o BigFromInt(n \div Base)

\* The limbs of a + b from limb i up; t is the sum of the two limbs and the
\* carry.
RECURSIVE BigAddFrom(_, _, _, _)
BigAddFrom(a, b, i, t) ==
    IF i > Len(a) /\ i > Len(b)
    THEN IF t = 0 THEN <<>> ELSE <<t>>
    ELSE <<t % Base>> \o
            BigAddFrom(a, b, i + 1, Limb(a, i + 1) + Limb(b, i + 1) + (t \div Base))

BigAdd(a, b) == BigAddFrom(a, b, 1, Limb(a, 1) + Limb(b, 1))

\* The limbs of a - b from limb i up; t is the difference of the two limbs
\* less the borrow.
RECURSIVE BigSubFrom(_, _, _, _)
BigSubFrom(a, b, i, t) ==
    IF i > Len(a) THEN <<>>
    ELSE <<t % Base>> \o
            BigSubFrom(a, b, i + 1,
                       Limb(a, i + 1) - Limb(b, i + 1) - (IF t < 0 THEN 1 ELSE 0))

\* a - b, for a >= b
BigSub(a, b) == BigTrim(BigSubFrom(a, b, 1, Limb(a, 1) - Limb(b, 1)))

RECURSIVE BigCmpFrom(_, _, _)
BigCmpFrom(a, b, i) ==
    IF i = 0 THEN 0
    ELSE IF a[i] > b[i] THEN 1
    ELSE IF a[i] < b[i] THEN -1
    ELSE BigCmpFrom(a, b, i - 1)

\* 1, 0 or -1 as a > b, a = b or a < b
BigCmp(a, b) ==
    IF Len(a) > Len(b) THEN 1
    ELSE IF Len(a) < Len(b) THEN -1
    ELSE BigCmpFrom(a, b, Len(a))

\* The limbs of a * k from limb i up; t is the product of the limb and the
\* carry.
RECURSIVE BigMulSmallFrom(_, _, _, _)
BigMulSmallFrom(a, k, i, t) ==
    IF i > Len(a)
    THEN IF t = 0 THEN <<>> ELSE <<t>>
    ELSE <<t % Base>> \o
            BigMulSmallFrom(a, k, i + 1, Limb(a, i + 1) * k + (t \div Base))

\* a * k, for a limb k
BigMulSmall(a, k) ==
    IF k = 0 \/ a = <<>> THEN <<>> ELSE BigMulSmallFrom(a, k, 1, a[1] * k)

RECURSIVE BigMulFrom(_, _, _)
BigMulFrom(a, b, i) ==
    IF i > Len(b) THEN <<>>
    ELSE BigAdd(Zeros(i - 1) \o BigMulSmall(a, b[i]), BigMulFrom(a, b, i + 1))

BigMul(a, b) == BigTrim(BigMulFrom(a, b, 1))

\* a * 2^k
BigShl(a, k) ==
    IF a = <<>> THEN <<>>
    ELSE Zeros(k \div LimbBits) \o BigMulSmall(a, 2^(k % LimbBits))

\* Division by a limb d, from limb i of a down: r is the remainder of the
\* limbs above i, q the quotient limbs found so far.
RECURSIVE BigDivSmallFrom(_, _, _, _, _)
BigDivSmallFrom(a, d, i, r, q) ==
    IF i = 0 THEN <<BigTrim(q), r # 0>>
    ELSE BigDivSmallFrom(a, d, i - 1, (r * Base + a[i]) % d,
                         <<(r * Base + a[i]) \div d>> \o q)

\* <<a \div d, a % d # 0>>, for a limb d
BigDivSmall(a, d) == BigDivSmallFrom(a, d, Len(a), 0, <<>>)

\* a \div 2^k
BigShr(a, k) ==
    IF k \div LimbBits >= Len(a) THEN <<>>
    ELSE BigDivSmall(SubSeq(a, (k \div LimbBits) + 1, Len(a)), 2^(k % LimbBits))[1]

RECURSIVE BitLength(_)
BitLength(n) == IF n = 0 THEN 0 ELSE 1 + BitLength(n \div 2)

BigBitLength(a) ==
    IF a = <<>> THEN 0 ELSE (Len(a) - 1) * LimbBits + BitLength(a[Len(a)])

BigIsOdd(a) == a # <<>> /\ a[1] % 2 = 1

\* The greatest k with d * k <= cur, found downwards from an estimate est >= k.
RECURSIVE QuotientLimb(_, _, _)
QuotientLimb(d, cur, est) ==
    IF BigCmp(BigMulSmall(d, est), cur) <= 0 THEN est
    ELSE QuotientLimb(d, cur, est - 1)

\* The limb cur \div d is at most this, and at most 2 below it: the quotient
\* of the two limbs of cur from the top limb of d up by that top limb, which
\* is Base \div 2 or more.
QuotientEstimate(d, cur) ==
    IF (Limb(cur, Len(d) + 1) * Base + Limb(cur, Len(d))) \div d[Len(d)] >= Base
    THEN Base - 1
    ELSE (Limb(cur, Len(d) + 1) * Base + Limb(cur, Len(d))) \div d[Len(d)]

\* Long division, limb by limb from limb i of a down: r < d is the remainder
\* of the limbs above i, q the quotient limbs found so far.
RECURSIVE BigDivLongFrom(_, _, _, _, _)
RECURSIVE BigDivLongLimb(_, _, _, _, _, _)
BigDivLongFrom(a, d, i, r, q) ==
    IF i = 0 THEN <<BigTrim(q), r # <<>>>>
    ELSE BigDivLongLimb(a, d, i, BigTrim(<<a[i]>> \o r), q,
                        QuotientLimb(d, BigTrim(<<a[i]>> \o r),
                                     QuotientEstimate(d, BigTrim(<<a[i]>> \o r))))

\* The step of the long division that has found limb k of the quotient.
BigDivLongLimb(a, d, i, cur, q, k) ==
    BigDivLongFrom(a, d, i - 1, BigSub(cur, BigMulSmall(d, k)), <<k>> \o q)

\* a \div d for a divisor of several limbs, both shifted up by sh bits so
\* that the top limb of the divisor is Base \div 2 or more.
BigDivLong(a, d, sh) ==
    BigDivLongFrom(BigShl(a, sh), BigShl(d, sh), Len(BigShl(a, sh)), <<>>, <<>>)

\* <<a \div d, a % d # 0>>, for d # 0
BigDivMod(a, d) ==
    IF Len(d) = 1 THEN BigDivSmall(a, d[1])
    ELSE BigDivLong(a, d, LimbBits - BitLength(d[Len(d)]))

-----------------------------------------------------------------------------
(* Floats.                                                                 *)

\* A finite double has an odd mantissa of at most 53 bits, an exponent of
\* the mantissa's last bit of -1074 or more, and a magnitude below 2^1024.
MinExponent == -1074

MaxExponent == 1024

Abs(n) == IF n < 0 THEN -n ELSE n

RECURSIVE TrailingZeros(_)
TrailingZeros(n) == IF n % 2 = 1 THEN 0 ELSE 1 + TrailingZeros(n \div 2)

\* <<m', e'>> with m' odd and m' * 2^e' = m * 2^e, for m # 0
RECURSIVE BigStrip(_, _)
BigStrip(m, e) ==
    IF m[1] = 0 THEN BigStrip(Tail(m), e + LimbBits)
    ELSE <<BigShr(m, TrailingZeros(m[1])), e + TrailingZeros(m[1])>>

\* 0.0 and -0.0
Zero == <<1, <<>>, 0>>

SignedZero(s) == <<s, <<>>, 0>>

\* inf and -inf, and nan
Inf(s) == <<s, <<>>, MaxExponent>>

NaN == <<1, <<1>>, MaxExponent>>

IsZero(a) == a[2] = <<>> /\ a[3] = 0

IsInf(a) == a[2] = <<>> /\ a[3] = MaxExponent

IsNaN(a) == a[2] # <<>> /\ a[3] = MaxExponent

IsFinite(a) == a[3] < MaxExponent

\* The value s * m * 2^e, m being any natural number: no rounding.
Exact(s, m, e) == IF m = <<>> THEN SignedZero(s) ELSE <<s>> \o BigStrip(m, e)

\* s * q * 2^e, or the next value up in magnitude, as the part dropped below
\* q is above, at or below one half (c = 1, 0, -1), a tie going to the even q.
RoundHalf(s, q, e, c) ==
    Exact(s, IF c > 0 \/ (c = 0 /\ BigIsOdd(q)) THEN BigAdd(q, <<1>>) ELSE q, e)

\* s * m * 2^e with the last sh bits of m rounded away, q being m \div 2^sh.
RoundQuotient(s, m, e, sh, q) ==
    RoundHalf(s, q, e + sh, BigCmp(BigSub(m, BigShl(q, sh)), BigShl(<<1>>, sh - 1)))

\* s * m * 2^e with the last sh bits of m rounded away, for sh > 0.
RoundShifted(s, m, e, sh) == RoundQuotient(s, m, e, sh, BigShr(m, sh))

\* The value x, or the infinity of its sign when it is 2^1024 or more in
\* magnitude.
Overflowing(x) ==
    IF x[2] # <<>> /\ BigBitLength(x[2]) + x[3] > MaxExponent THEN Inf(x[1]) ELSE x

\* s * m * 2^e rounded to a double that drops the last sh bits of m, when
\* sh > 0.
RoundDropping(s, m, e, sh) ==
    IF sh <= 0 THEN Overflowing(Exact(s, m, e))
    ELSE Overflowing(RoundShifted(s, m, e, sh))

\* The float nearest to s * m * 2^e, a tie going to the even mantissa: the
\* mantissa keeps 53 bits, fewer when the value is subnormal; the result is
\* a zero when the value is below half the least double and an infinity on
\* overflow.
RoundToFloat(s, m, e) ==
    IF m = <<>> THEN SignedZero(s)
    ELSE IF BigBitLength(m) + e < MinExponent THEN SignedZero(s)
    ELSE IF BigBitLength(m) - MantissaBits >= MinExponent - e
    THEN RoundDropping(s, m, e, BigBitLength(m) - MantissaBits)
    ELSE RoundDropping(s, m, e, MinExponent - e)

\* The integer k, as int or float.
Whole(k) == Exact(IF k < 0 THEN -1 ELSE 1, BigFromInt(Abs(k)), 0)

\* sa * ma * 2^e + sb * mb * 2^e for opposite signs, c comparing ma with mb.
ExactSubAligned(sa, ma, sb, mb, e, c) ==
    IF c = 0 THEN Zero
    ELSE IF c > 0 THEN Exact(sa, BigSub(ma, mb), e)
    ELSE Exact(sb, BigSub(mb, ma), e)

\* sa * ma * 2^e + sb * mb * 2^e
ExactAddAligned(sa, ma, sb, mb, e) ==
    IF sa = sb THEN Exact(sa, BigAdd(ma, mb), e)
    ELSE ExactSubAligned(sa, ma, sb, mb, e, BigCmp(ma, mb))

\* a + b with both mantissas brought to the exponent e, the smaller of the two.
ExactAddAt(a, b, e) ==
    ExactAddAligned(a[1], BigShl(a[2], a[3] - e), b[1], BigShl(b[2], b[3] - e), e)

\* a + b, not rounded, for finite a and b
ExactAdd(a, b) == ExactAddAt(a, b, IF a[3] < b[3] THEN a[3] ELSE b[3])

\* The float nearest to the value x.
Rounded(x) == RoundToFloat(x[1], x[2], x[3])

\* a * b
Mul(a, b) ==
    IF IsNaN(a) \/ IsNaN(b) THEN NaN
    ELSE IF IsInf(a) \/ IsInf(b)
    THEN IF IsZero(a) \/ IsZero(b) THEN NaN ELSE Inf(a[1] * b[1])
    ELSE RoundToFloat(a[1] * b[1], BigMul(a[2], b[2]), a[3] + b[3])

\* The exponent just above the first bit of a, for a finite and not zero.
Top(a) == BigBitLength(a[2]) + a[3]

\* x is so far below y that y + x rounds to y: less than a quarter of the
\* distance from y to the next double either way.
Negligible(x, y) == Top(x) + MantissaBits + 3 <= Top(y)

\* a + b
Add(a, b) ==
    IF IsNaN(a) \/ IsNaN(b) THEN NaN
    ELSE IF IsInf(a) THEN IF IsInf(b) /\ a[1] # b[1] THEN NaN ELSE a
    ELSE IF IsInf(b) THEN b
    ELSE IF IsZero(a) THEN IF IsZero(b) /\ a[1] # b[1] THEN Zero ELSE b
    ELSE IF IsZero(b) THEN a
    ELSE IF Negligible(b, a) THEN a
    ELSE IF Negligible(a, b) THEN b
    ELSE Rounded(ExactAdd(a, b))

\* The float nearest to s * (2 * qr[1] + sticky) * 2^e, where qr is a
\* quotient and whether something was left over.
DivRounded(s, qr, e) ==
    RoundToFloat(s, BigAdd(BigAdd(qr[1], qr[1]), IF qr[2] THEN <<1>> ELSE <<>>), e)

\* a / b with the mantissa of a shifted up by k bits first.
DivShifted(a, b, k) ==
    DivRounded(a[1] * b[1], BigDivMod(BigShl(a[2], k), b[2]), a[3] - b[3] - k - 1)

\* a / b for finite a and b, neither zero: by a power of two only the
\* exponent changes; otherwise the quotient of the mantissas is carried to
\* 55 bits or more, with one more bit below telling whether anything was
\* left over.
DivFinite(a, b) ==
    IF b[2] = <<1>> THEN RoundToFloat(a[1] * b[1], a[2], a[3] - b[3])
    ELSE IF (MantissaBits + 2) + BigBitLength(b[2]) > BigBitLength(a[2])
    THEN DivShifted(a, b, (MantissaBits + 2) + BigBitLength(b[2]) - BigBitLength(a[2]))
    ELSE DivShifted(a, b, 0)

\* a / b: a float, or the exception the division raises.
Div(a, b) ==
    IF IsZero(b) THEN "ZeroDivisionError"
    ELSE IF IsNaN(a) \/ IsNaN(b) THEN NaN
    ELSE IF IsInf(a) THEN IF IsInf(b) THEN NaN ELSE Inf(a[1] * b[1])
    ELSE IF IsInf(b) \/ IsZero(a) THEN SignedZero(a[1] * b[1])
    ELSE DivFinite(a, b)

\* The float written n/d in decimal notation, as 0.01 for 1/100.
Frac(n, d) == Div(Whole(n), Whole(d))

\* 1, 0 or -1 as |a| > |b|, |a| = |b| or |a| < |b|, for a and b finite and
\* not zero, and e the smaller of their exponents
MagnitudeCmpAt(a, b, e) ==
    IF Top(a) > Top(b) THEN 1
    ELSE IF Top(a) < Top(b) THEN -1
    ELSE BigCmp(BigShl(a[2], a[3] - e), BigShl(b[2], b[3] - e))

MagnitudeCmp(a, b) == MagnitudeCmpAt(a, b, IF a[3] < b[3] THEN a[3] ELSE b[3])

\* a <= b: false when either is nan; the two zeros are equal.
Leq(a, b) ==
    IF IsNaN(a) \/ IsNaN(b) THEN FALSE
    ELSE IF a = b THEN TRUE
    ELSE IF IsZero(a) THEN IsZero(b) \/ b[1] > 0
    ELSE IF IsZero(b) THEN a[1] < 0
    ELSE IF a[1] # b[1] THEN a[1] < b[1]
    ELSE IF IsInf(a) THEN a[1] < 0
    ELSE IF IsInf(b) THEN b[1] > 0
    ELSE IF a[1] > 0 THEN MagnitudeCmp(a, b) < 0
    ELSE MagnitudeCmp(a, b) > 0

\* a < b
Less(a, b) == Leq(a, b) /\ ~Leq(b, a)

IsInteger(a) == IsFinite(a) /\ (IsZero(a) \/ a[3] >= 0)

\* What math.ceil, math.floor and round raise on a value that is not finite.
IntegerError(a) == IF IsInf(a) THEN "OverflowError" ELSE "ValueError"

\* The int s * m; the int 0 has no sign.
Integer(s, m) == IF m = <<>> THEN Zero ELSE Exact(s, m, 0)

\* The integer part of the magnitude of a, for a not an integer.
Truncated(a) == IF Top(a) <= 0 THEN <<>> ELSE BigShr(a[2], -a[3])

\* math.floor: the greatest integer <= a.
floor(a) ==
    IF ~IsFinite(a) THEN IntegerError(a)
    ELSE IF IsZero(a) THEN Zero
    ELSE IF IsInteger(a) THEN a
    ELSE IF a[1] > 0 THEN Integer(1, Truncated(a))
    ELSE Integer(-1, BigAdd(Truncated(a), <<1>>))

\* A ceiling computed as floor + 1: wrong on integers.
ceilOffByOne(a) == IF ~IsFinite(a) THEN IntegerError(a) ELSE Add(floor(a), Whole(1))

\* math.ceil: the least integer >= a.
ceil(a) ==
    IF ~IsFinite(a) THEN IntegerError(a)
    ELSE IF IsZero(a) THEN Zero
    ELSE IF IsInteger(a) THEN a
    ELSE IF a[1] > 0 THEN Integer(1, BigAdd(Truncated(a), <<1>>))
    ELSE Integer(-1, Truncated(a))

\* The int of the value x: the int 0 has no sign.
RoundedInteger(x) == IF IsZero(x) THEN Zero ELSE x

\* Python 3 round(x): the nearest integer, a tie going to the even neighbour.
round(a) ==
    IF ~IsFinite(a) THEN IntegerError(a)
    ELSE IF IsZero(a) THEN Zero
    ELSE IF IsInteger(a) THEN a
    ELSE IF Top(a) < 0 THEN Zero
    ELSE RoundedInteger(RoundShifted(a[1], a[2], a[3], -a[3]))

-----------------------------------------------------------------------------
(* The unit catalog (uom.uom), which the converter only reads.             *)

None == "None"

Units == {"g", "kg", "egg", "dozen", "L"}

\* uom.uom.category_id
category_id ==
    [u \in Units |->
        CASE u \in {"g", "kg"} -> "weight"
          [] u \in {"egg", "dozen"} -> "unit"
          [] OTHER -> "volume"]

\* uom.uom.factor: how many of the unit make one reference unit of its category.
factor ==
    [u \in Units |->
        CASE u = "g" -> Whole(1000)
          [] u = "dozen" -> Frac(1, 12)
          [] OTHER -> Whole(1)]

\* from_unit._compute_quantity(qty, to_unit): the catalog's linear conversion
\* between two units of one category.
compute_quantity(from_unit, qty, to_unit) ==
    Mul(Div(qty, factor[from_unit]), factor[to_unit])

-----------------------------------------------------------------------------
(* Configuration: uom.converter and uom.converter.line.                    *)

Converters == {"flour2eggs", "kilo2dozens"}

RoundMethods == {"none", "ceil", "round", "floor"}

\* The floats 1e308 and 5e-324, the latter the least positive double.
Huge == Exact(1, <<24133, 14430, 14750, 4>>, 976)

Tiny == Exact(1, <<1>>, MinExponent)

Negated(a) == <<-a[1], a[2], a[3]>>

\* The values of max_qty, and of (coefficient, constant), the rows of each
\* converter draw from.  0.07 is a coefficient whose float products drift:
\* 100 * 0.07 is 7.000000000000001.  With the coefficient -1000 the product
\* of a quantity of -1e308 overflows, and with -0.07 on the same converter
\* it does not.
MaxQtys == {Frac(50, 1), Frac(100000, 1)}

Affines ==
    [c \in Converters |->
        IF c = "flour2eggs"
        THEN {<<Frac(1, 100), Frac(0, 1)>>, <<Frac(7, 100), Frac(0, 1)>>}
        ELSE {<<Frac(-1000, 1), Frac(1, 1)>>, <<Frac(-7, 100), Frac(1, 1)>>}]

LineRows ==
    UNION {{[uom_converter_id |-> c, max_qty |-> m,
             coefficient |-> a[1], constant |-> a[2]] :
                m \in MaxQtys, a \in Affines[c]} : c \in Converters}

\* The quantities and the optional unit arguments convert is called with.
Quantities ==
    {Negated(Huge), Frac(-150, 1), Negated(Tiny), Frac(50, 1), Frac(60, 1),
     Frac(100, 1), Frac(101, 1), Frac(1499, 10), Frac(1501, 10)}

InputUoms == {None, "g", "kg", "L"}

ResultUoms == {None, "egg", "dozen", "L"}

NoLine == [uom_converter_id |-> None]

NoCall == [converter |-> None]

TypeOK ==
    /\ converter \in [Converters ->
            [name : Converters, from_uom_id : Units, to_uom_id : Units,
             round_method : RoundMethods]]
    /\ line \subseteq LineRows
    /\ Cardinality(line) <= MaxLines

\* The two converters are configured with different rounding methods, each
\* converter taking every method in some configuration.
OtherMethod ==
    [m \in RoundMethods |->
        CASE m = "none" -> "ceil"
          [] m = "ceil" -> "round"
          [] m = "round" -> "floor"
          [] OTHER -> "none"]

Init ==
    /\ \E m \in RoundMethods :
        converter =
            [c \in Converters |->
                [name |-> c,
                 from_uom_id |-> IF c = "flour2eggs" THEN "g" ELSE "kg",
                 to_uom_id |-> IF c = "flour2eggs" THEN "egg" ELSE "dozen",
                 round_method |-> IF c = "flour2eggs" THEN m ELSE OtherMethod[m]]]
    /\ \E rows \in SUBSET LineRows :
        /\ Cardinality(rows) <= MaxLines
        /\ line = rows
    /\ last = NoCall
    /\ prev = NoCall

-----------------------------------------------------------------------------
(* UomConverter.convert, stage by stage.                                   *)

\* The unit the quantity is read in: from_uom_id when uom_qty is not given.
DefaultUomQty(c, uom_qty) ==
    IF uom_qty = None THEN converter[c].from_uom_id ELSE uom_qty

\* The unit the result is returned in: to_uom_id when result_uom is not given.
DefaultResultUom(c, result_uom) ==
    IF result_uom = None THEN converter[c].to_uom_id ELSE result_uom

\* uom_qty is given and its category is not the one of from_uom_id.
InputMismatch(c, uom_qty) ==
    /\ uom_qty # None
    /\ category_id[uom_qty] # category_id[converter[c].from_uom_id]

\* The category of result_uom is not checked at all.
OutputUnchecked(c, result_uom) == FALSE

\* result_uom is given and its category is not the one of to_uom_id.
OutputMismatch(c, result_uom) ==
    /\ result_uom # None
    /\ category_id[result_uom] # category_id[converter[c].to_uom_id]

\* The quantity in from_uom_id: converted only when a different unit is given.
Normalize(c, quantity, uom_qty) ==
    IF uom_qty # None /\ uom_qty # converter[c].from_uom_id
    THEN compute_quantity(uom_qty, quantity, converter[c].from_uom_id)
    ELSE quantity

\* The catalog is called whenever uom_qty is given, from_uom_id included.
InputCallsWheneverGiven(c, uom_qty) == IF uom_qty # None THEN 1 ELSE 0

\* Calls of _compute_quantity made for the input and for the result.
InputCalls(c, uom_qty) ==
    IF uom_qty # None /\ uom_qty # converter[c].from_uom_id THEN 1 ELSE 0

OutputCalls(c, result_uom) ==
    IF result_uom # None /\ result_uom # converter[c].to_uom_id THEN 1 ELSE 0

\* The rows matching the search domain.
Matching(c, quantity) ==
    {l \in line : l.uom_converter_id = c /\ Leq(quantity, l.max_qty)}

\* A search that forgets the converter in its domain.
SearchAnyConverter(c, quantity) ==
    LET m == {l \in line : Leq(quantity, l.max_qty)}
    IN  {l \in m : \A o \in m : Leq(l.max_qty, o.max_qty)}

\* A search ordered by max_qty descending.
SearchDescending(c, quantity) ==
    LET m == {l \in line : l.uom_converter_id = c /\ Leq(quantity, l.max_qty)}
    IN  {l \in m : \A o \in m : Leq(o.max_qty, l.max_qty)}

\* A search whose comparison is turned round (max_qty <= quantity).
SearchBelow(c, quantity) ==
    LET m == {l \in line : l.uom_converter_id = c /\ Leq(l.max_qty, quantity)}
    IN  {l \in m : \A o \in m : Leq(l.max_qty, o.max_qty)}

\* A search with a limit but no order: any matching row.
SearchUnordered(c, quantity) ==
    {l \in line : l.uom_converter_id = c /\ Leq(quantity, l.max_qty)}

\* The rows of m that an ascending order on max_qty may put first.
FirstByMaxQty(m) == {l \in m : \A o \in m : Leq(l.max_qty, o.max_qty)}

\* search(domain, order="max_qty", limit=1): the rows that can come first.
\* The order names max_qty only, so among rows sharing the least max_qty the
\* database may return any one.
Search(c, quantity) == FirstByMaxQty(Matching(c, quantity))

\* quantity * coefficient + constant
Transform(quantity, l) == Add(Mul(quantity, l.coefficient), l.constant)

\* The result in result_uom: converted only when a different unit is given.
Denormalize(c, result, result_uom) ==
    IF result_uom # None /\ result_uom # converter[c].to_uom_id
    THEN compute_quantity(converter[c].to_uom_id, result, result_uom)
    ELSE result

\* The round_method dispatch at the end of convert.
ApplyRounding(method, result) ==
    CASE method = "ceil" -> ceil(result)
      [] method = "floor" -> floor(result)
      [] method = "round" -> round(result)
      [] OTHER -> result

\* What a call leaves behind: its arguments, the intermediate values it
\* computed, and how it ended.
CallRecord(c, quantity, uom_qty, result_uom, n, l, r, d, res, err, calls) ==
    [converter |-> c, quantity |-> quantity, uom_qty |-> uom_qty,
     result_uom |-> result_uom, normalized |-> n, line |-> l, affine |-> r,
     denormalized |-> d, result |-> res, error |-> err, calls |-> calls]

\* The call from the rounding on: the value returned, or the exception
\* that math.ceil, math.floor or round raises on an infinity or a nan.
Rounding(c, quantity, uom_qty, result_uom, n, k, l, r, d) ==
    IF converter[c].round_method # "none" /\ ~IsFinite(d)
    THEN CallRecord(c, quantity, uom_qty, result_uom, n, l, r, d,
                    None, ApplyRounding(converter[c].round_method, d),
                    k + OutputCalls(c, result_uom))
    ELSE CallRecord(c, quantity, uom_qty, result_uom, n, l, r, d,
                    ApplyRounding(converter[c].round_method, d), "none",
                    k + OutputCalls(c, result_uom))

\* The call from the affine transform on, with the row l the search returned.
Transforming(c, quantity, uom_qty, result_uom, n, k, l, r) ==
    Rounding(c, quantity, uom_qty, result_uom, n, k, l, r,
             Denormalize(c, r, result_uom))

\* The call from the search on: found holds the rows the search may return.
Searching(c, quantity, uom_qty, result_uom, n, k, found) ==
    IF found = {}
    THEN {CallRecord(c, quantity, uom_qty, result_uom, n, NoLine, None, None,
                     None, "QuantityOutOfRange", k)}
    ELSE {Transforming(c, quantity, uom_qty, result_uom, n, k, l, Transform(n, l)) :
            l \in found}

\* The call from the check of result_uom on, n being the normalized quantity
\* and k the number of catalog calls made for it.
CheckingOutput(c, quantity, uom_qty, result_uom, n, k) ==
    IF OutputMismatch(c, result_uom)
    THEN {CallRecord(c, quantity, uom_qty, result_uom, n, NoLine, None, None,
                     None, "IncompatibleUnitCategory", k)}
    ELSE Searching(c, quantity, uom_qty, result_uom, n, k, Search(c, n))

\* The possible outcomes of self.convert(quantity, uom_qty, result_uom).
Outcomes(c, quantity, uom_qty, result_uom) ==
    IF InputMismatch(c, uom_qty)
    THEN {CallRecord(c, quantity, uom_qty, result_uom, None, NoLine, None, None,
                     None, "IncompatibleUnitCategory", 0)}
    ELSE CheckingOutput(c, quantity, uom_qty, result_uom,
                        Normalize(c, quantity, uom_qty), InputCalls(c, uom_qty))

\* A call that unlinks the row it used.
CallUnlinking(c, quantity, uom_qty, result_uom) ==
    /\ last' \in Outcomes(c, quantity, uom_qty, result_uom)
    /\ line' = line \ {last'.line}
    /\ UNCHANGED converter

\* One call of convert, from entry to return or raise.
Call(c, quantity, uom_qty, result_uom) ==
    /\ last' \in Outcomes(c, quantity, uom_qty, result_uom)
    /\ UNCHANGED <<converter, line>>

\* The first call of a run, with any arguments.
Convert ==
    /\ last = NoCall
    /\ \E c \in Converters, q \in Quantities, u \in InputUoms, r \in ResultUoms :
        Call(c, q, u, r)
    /\ UNCHANGED prev

\* The arguments of a second call after the call first: the same quantity in
\* the same units, given or defaulted, or the same unit arguments with a
\* larger quantity, when the first call was not rejected for its units.
Following(first, quantity, uom_qty, result_uom) ==
    /\ DefaultUomQty(first.converter, uom_qty) =
            DefaultUomQty(first.converter, first.uom_qty)
    /\ DefaultResultUom(first.converter, result_uom) =
            DefaultResultUom(first.converter, first.result_uom)
    /\ \/ quantity = first.quantity
       \/ /\ uom_qty = first.uom_qty
          /\ result_uom = first.result_uom
          /\ first.error # "IncompatibleUnitCategory"
          /\ Less(first.quantity, quantity)

\* A second call through the same converter; the first call is kept beside
\* it.
Repeat ==
    /\ last # NoCall
    /\ prev = NoCall
    /\ \E q \in Quantities, u \in InputUoms, r \in ResultUoms :
        /\ Following(last, q, u, r)
        /\ Call(last.converter, q, u, r)
    /\ prev' = last

Next == Convert

NextRepeat == Convert \/ Repeat

\* One call from every configuration.
Spec == Init /\ [][Next]_vars

\* Two consecutive calls through one converter.
SpecRepeat == Init /\ [][NextRepeat]_vars

-----------------------------------------------------------------------------
(* Properties of convert.  They are stated on the record a call leaves     *)
(* behind, from the configuration and the arithmetic alone.                *)

\* The rows of converter c.
Owned(c) == {l \in line : l.uom_converter_id = c}

\* Some row of converter c has max_qty >= n.
InRange(c, n) == \E l \in Owned(c) : Leq(n, l.max_qty)

\* A unit argument of the call is given and of another category than the
\* converter's unit on that side.
BadInput(call) ==
    /\ call.uom_qty # None
    /\ category_id[call.uom_qty] # category_id[converter[call.converter].from_uom_id]

BadOutput(call) ==
    /\ call.result_uom # None
    /\ category_id[call.result_uom] # category_id[converter[call.converter].to_uom_id]

\* The call got as far as the search of a row.
Searched(call) == call # NoCall /\ ~BadInput(call) /\ ~BadOutput(call)

\* The call returned a value.
Returned(call) == call # NoCall /\ call.error = "none"

\* The quantity of the call in from_uom_id, by the catalog's factors.
InSourceUnit(call) ==
    LET from == converter[call.converter].from_uom_id
    IN  IF call.uom_qty = None \/ call.uom_qty = from
        THEN call.quantity
        ELSE Mul(Div(call.quantity, factor[call.uom_qty]), factor[from])

\* C1: when some row of the converter has max_qty >= the normalized quantity,
\* the row used is a row of that converter, its max_qty is >= the quantity
\* (equality included), and no row of the converter with max_qty >= the
\* quantity has a smaller max_qty.
C1_SelectedLine ==
    (Searched(last) /\ InRange(last.converter, last.normalized)) =>
        /\ last.line \in line
        /\ last.line.uom_converter_id = last.converter
        /\ Leq(last.normalized, last.line.max_qty)
        /\ \A o \in Owned(last.converter) :
            Leq(last.normalized, o.max_qty) => Leq(last.line.max_qty, o.max_qty)

\* The quantity sits exactly on the bound of the selected row, and a row of
\* another converter matches the quantity as well.
C1_Witness ==
    /\ Returned(last)
    /\ last.normalized = last.line.max_qty
    /\ \E o \in line :
        /\ o.uom_converter_id # last.converter
        /\ Leq(last.normalized, o.max_qty)

\* C2 as stated: a call whose unit arguments are omitted or compatible
\* returns a value exactly when some row of the converter has max_qty >= the
\* normalized quantity, and fails with QuantityOutOfRange, without a value,
\* otherwise; a single row with max_qty = 50 and convert(60) fails with
\* QuantityOutOfRange.
C2_InRangeOrError ==
    Searched(last) =>
        /\ last.normalized = InSourceUnit(last)
        /\ InRange(last.converter, last.normalized) =>
            (last.error = "none" /\ last.result # None)
        /\ ~InRange(last.converter, last.normalized) =>
            (last.error = "QuantityOutOfRange" /\ last.result = None)
        /\ ( /\ Cardinality(Owned(last.converter)) = 1
             /\ \A l \in Owned(last.converter) : l.max_qty = Frac(50, 1)
             /\ last.quantity = Frac(60, 1)
             /\ last.uom_qty = None ) =>
            last.error = "QuantityOutOfRange"

\* A row matches the quantity -1e308, the product by the coefficient -1000
\* on that row is an infinity, and rounding it up has raised OverflowError:
\* no value, and no QuantityOutOfRange either.
C2_Witness ==
    /\ Searched(last)
    /\ last.quantity = Negated(Huge)
    /\ last.uom_qty = None
    /\ last.result_uom = None
    /\ InRange(last.converter, last.normalized)
    /\ last.line.coefficient = Frac(-1000, 1)
    /\ last.affine = Inf(1)
    /\ converter[last.converter].round_method = "ceil"
    /\ last.result = None
    /\ last.error = "OverflowError"

\* C3: a call given an input unit of another category than from_uom_id, or a
\* result unit of another category than to_uom_id, fails with
\* IncompatibleUnitCategory whatever the quantity and the rows: it returns no
\* value and does not fail with QuantityOutOfRange.
C3_MismatchRejected ==
    (last # NoCall /\ (BadInput(last) \/ BadOutput(last))) =>
        /\ last.error = "IncompatibleUnitCategory"
        /\ last.result = None
        /\ last.line = NoLine

\* Only the result unit is of another category, and the quantity is beyond
\* every row of the converter.
C3_Witness ==
    /\ last # NoCall
    /\ ~BadInput(last)
    /\ BadOutput(last)
    /\ ~InRange(last.converter, InSourceUnit(last))
    /\ last.error = "IncompatibleUnitCategory"

\* The arithmetic of the specification: exact decimals, kept as fractions
\* <<n, d>> in lowest terms with d > 0.
RECURSIVE GCD(_, _)
GCD(a, b) == IF b = 0 THEN a ELSE GCD(b, a % b)

Dec(n, d) ==
    LET s == IF d < 0 THEN -1 ELSE 1
        g == GCD(Abs(n), Abs(d))
    IN  <<(s * n) \div g, (s * d) \div g>>

DecMul(a, b) == Dec(a[1] * b[1], a[2] * b[2])

DecAdd(a, b) == Dec(a[1] * b[2] + b[1] * a[2], a[2] * b[2])

DecDiv(a, b) == Dec(a[1] * b[2], a[2] * b[1])

DecLeq(a, b) == a[1] * b[2] <= b[1] * a[2]

\* The greatest integer <= a and the least integer >= a.
DecFloor(a) == a[1] \div a[2]

DecCeil(a) == -((-a[1]) \div a[2])

\* The decimals the rows are configured with and the calls are made with.
Decimals ==
    {Dec(n, 1) : n \in {-1000, -150, 0, 1, 50, 60, 100, 101, 100000}}
        \cup {Dec(1499, 10), Dec(1501, 10), Dec(1, 100), Dec(7, 100), Dec(-7, 100)}

\* The float the code holds for a decimal, and the decimal a float of the
\* configuration or of a call stands for.
FloatOf(p) == Frac(p[1], p[2])

Written == {<<FloatOf(p), p>> : p \in Decimals}

DecimalOf(f) == (CHOOSE t \in Written : t[1] = f)[2]

\* The quantity of the call and the numbers on the row it used are decimals
\* of four digits or fewer.
InDecimals(call) ==
    \A f \in {call.quantity, call.line.max_qty, call.line.coefficient,
              call.line.constant} : \E t \in Written : t[1] = f

\* The catalog's factors as decimals.
DecFactor ==
    [u \in Units |->
        CASE u = "g" -> Dec(1000, 1)
          [] u = "dozen" -> Dec(1, 12)
          [] OTHER -> Dec(1, 1)]

\* The quantity of the call in from_uom_id, and a value of to_uom_id in the
\* unit the call asked for, in decimals.
DecInSourceUnit(call) ==
    LET from == converter[call.converter].from_uom_id
        q == DecimalOf(call.quantity)
    IN  IF call.uom_qty = None \/ call.uom_qty = from
        THEN q
        ELSE DecMul(DecDiv(q, DecFactor[call.uom_qty]), DecFactor[from])

DecInResultUnit(call, value) ==
    LET to == converter[call.converter].to_uom_id
    IN  IF call.result_uom = None \/ call.result_uom = to
        THEN value
        ELSE DecMul(DecDiv(value, DecFactor[to]), DecFactor[call.result_uom])

\* res is what the rounding method gives for the decimal d: the least integer
\* >= d, the greatest integer <= d, the nearest integer (either neighbour on a
\* tie), or d itself.
DecRoundedAs(method, d, res) ==
    LET f == DecFloor(d)
        twice == 2 * (d[1] - f * d[2])
    IN  CASE method = "ceil" -> res = Whole(DecCeil(d))
          [] method = "floor" -> res = Whole(f)
          [] method = "round" ->
                \/ twice <= d[2] /\ res = Whole(f)
                \/ twice >= d[2] /\ res = Whole(f + 1)
          [] OTHER -> res = FloatOf(d)

\* The flour to eggs example: one row (100000, coefficient, 0), units omitted.
FlourExample(method, coefficient, quantity) ==
    /\ last # NoCall
    /\ last.converter = "flour2eggs"
    /\ Owned("flour2eggs") =
        {[uom_converter_id |-> "flour2eggs", max_qty |-> Frac(100000, 1),
          coefficient |-> coefficient, constant |-> Frac(0, 1)]}
    /\ converter["flour2eggs"].round_method = method
    /\ last.quantity = quantity
    /\ last.uom_qty = None
    /\ last.result_uom = None

\* C4 as stated, for decimal quantities and rows: the value returned is the
\* rounding, applied last, of
\* n * coefficient + constant, where n is the quantity normalized to
\* from_uom_id and the row is the one selected for n, converted from
\* to_uom_id to the result unit; ceil gives the least integer >= d, floor the
\* greatest integer <= d, round the nearest integer, none d itself.  With one
\* row (100000, 0.01, 0): ceil gives convert(101) = 2 and convert(100) = 1,
\* floor convert(101) = 1, round convert(149.9) = 1 and convert(150.1) = 2.
C4_Pipeline ==
    /\ (Returned(last) /\ InDecimals(last)) =>
        LET n == DecInSourceUnit(last)
            l == last.line
            r == DecAdd(DecMul(n, DecimalOf(l.coefficient)), DecimalOf(l.constant))
            d == DecInResultUnit(last, r)
        IN  /\ l \in Owned(last.converter)
            /\ DecLeq(n, DecimalOf(l.max_qty))
            /\ \A o \in Owned(last.converter) :
                DecLeq(n, DecimalOf(o.max_qty)) =>
                    DecLeq(DecimalOf(l.max_qty), DecimalOf(o.max_qty))
            /\ DecRoundedAs(converter[last.converter].round_method, d, last.result)
    /\ FlourExample("ceil", Frac(1, 100), Frac(101, 1)) => last.result = Whole(2)
    /\ FlourExample("ceil", Frac(1, 100), Frac(100, 1)) => last.result = Whole(1)
    /\ FlourExample("floor", Frac(1, 100), Frac(101, 1)) => last.result = Whole(1)
    /\ FlourExample("round", Frac(1, 100), Frac(1499, 10)) => last.result = Whole(1)
    /\ FlourExample("round", Frac(1, 100), Frac(1501, 10)) => last.result = Whole(2)

\* One row (100000, 0.07, 0), rounding up, convert(100): the float product is
\* 7.000000000000001 and the call returns 8, where 100 * 0.07 + 0 = 7.
C4_Witness ==
    /\ FlourExample("ceil", Frac(7, 100), Frac(100, 1))
    /\ Returned(last)
    /\ last.affine # Whole(7)
    /\ Less(Whole(7), last.affine)
    /\ last.result = Whole(8)

\* The values a call has computed that ceil, floor and round accept: the
\* finite ones (on an infinity or a nan they raise).
Computed(call) ==
    {v \in {call.quantity, call.normalized, call.affine, call.denormalized} :
        IsFinite(v)}
        \cup (IF Returned(call) /\ IsFinite(call.result) THEN {call.result} ELSE {})

\* C7: applying a rounding method to a value it has already rounded gives
\* that value again, for every method and every finite value a call has
\* computed; with ceil, floor and round the value a call returns is an
\* integer.
C7_RoundingIdempotent ==
    (last # NoCall /\ last.line # NoLine) =>
        /\ \A m \in RoundMethods :
            \A v \in Computed(last) :
                ApplyRounding(m, ApplyRounding(m, v)) = ApplyRounding(m, v)
        /\ (Returned(last) /\ converter[last.converter].round_method # "none") =>
            IsInteger(last.result)

\* A call rounded up from a value that is not an integer.
C7_Witness ==
    /\ Returned(last)
    /\ converter[last.converter].round_method = "ceil"
    /\ ~IsInteger(last.denormalized)
    /\ IsInteger(last.result)

\* C9 as stated: of two rows of the converter with max_qty >= the quantity,
\* the one with the smaller max_qty is never the one selected.
C9_SmallerNeverPreferred ==
    Returned(last) =>
        \A o \in Owned(last.converter) :
            Leq(last.normalized, o.max_qty) => ~Less(last.line.max_qty, o.max_qty)

\* C9 amended: of two rows of the converter with max_qty >= the quantity,
\* the one with the larger max_qty is never the one selected.
C9_LargerNeverPreferred ==
    Returned(last) =>
        \A small, large \in Owned(last.converter) :
            ( /\ Leq(last.normalized, small.max_qty)
              /\ Less(small.max_qty, large.max_qty) ) => last.line # large

\* Two rows of the converter with different max_qty both match the quantity.
C9_Witness ==
    /\ Returned(last)
    /\ \E small, large \in Owned(last.converter) :
        /\ Leq(last.normalized, small.max_qty)
        /\ Less(small.max_qty, large.max_qty)
        /\ last.line = small

-----------------------------------------------------------------------------
(* Properties of two calls through one converter (SpecRepeat).             *)

\* Both calls of the run are finished.
TwoCalls == prev # NoCall /\ last # NoCall

\* Both calls ended the same way: the same error, or the same value.
SameOutcome(a, b) == a.error = b.error /\ a.result = b.result

\* first has the smaller normalized quantity of two calls that both searched.
Ordered(first, second) ==
    /\ Searched(first)
    /\ Searched(second)
    /\ Less(first.normalized, second.normalized)

\* The search of the call found a row.
Selected(call) == call.line # NoLine

\* C5: of two normalized quantities q1 < q2 that both have a matching row,
\* the row selected for q2 has a max_qty >= the one of the row selected for
\* q1; and when q2 has a matching row, q1 has one too.
C5_Monotonic ==
    TwoCalls =>
        \A first, second \in {prev, last} :
            Ordered(first, second) =>
                /\ ( /\ InRange(first.converter, first.normalized)
                     /\ InRange(second.converter, second.normalized) ) =>
                    /\ Selected(first)
                    /\ Selected(second)
                    /\ Leq(first.line.max_qty, second.line.max_qty)
                /\ InRange(second.converter, second.normalized) =>
                    InRange(first.converter, first.normalized)

\* Two calls in different brackets: the smaller quantity in the narrower one.
C5_Witness ==
    /\ TwoCalls
    /\ Searched(prev)
    /\ Searched(last)
    /\ Selected(prev)
    /\ Selected(last)
    /\ Less(prev.normalized, last.normalized)
    /\ Less(prev.line.max_qty, last.line.max_qty)

\* One call names from_uom_id and to_uom_id, the other names no unit, and
\* both convert the same quantity.
IdentityPair(named, omitted) ==
    /\ named.uom_qty = converter[named.converter].from_uom_id
    /\ named.result_uom = converter[named.converter].to_uom_id
    /\ omitted.uom_qty = None
    /\ omitted.result_uom = None
    /\ named.quantity = omitted.quantity

\* C6 as stated: a call naming from_uom_id and to_uom_id ends exactly as the
\* call of the same quantity naming no unit, and calls the catalog not once.
C6_IdentityUnits ==
    TwoCalls =>
        \A named, omitted \in {prev, last} :
            IdentityPair(named, omitted) =>
                /\ named.calls = 0
                /\ SameOutcome(named, omitted)

\* C6 amended: a call naming from_uom_id and to_uom_id calls the catalog not
\* once, keeps the quantity as given, and reaches the search as the call of
\* the same quantity naming no unit does: both fail alike before a row is
\* selected, or both select rows of the same max_qty; and whenever those
\* rows have the same coefficient and constant the two calls end alike, with
\* the same value or the same error.
C6_IdentityUnitsSameRow ==
    TwoCalls =>
        \A named, omitted \in {prev, last} :
            IdentityPair(named, omitted) =>
                /\ named.calls = 0
                /\ omitted.calls = 0
                /\ named.normalized = named.quantity
                /\ Selected(named) <=> Selected(omitted)
                /\ ~Selected(named) => named.error = omitted.error
                /\ Selected(named) =>
                    /\ named.line.max_qty = omitted.line.max_qty
                    /\ named.denormalized = named.affine
                    /\ ( /\ named.line.coefficient = omitted.line.coefficient
                         /\ named.line.constant = omitted.line.constant ) =>
                        SameOutcome(named, omitted)

\* A call naming no unit followed by the call naming the converter's own
\* units, both returning the value of the same row.
C6_Witness ==
    /\ TwoCalls
    /\ IdentityPair(last, prev)
    /\ Returned(last)
    /\ last.line = prev.line
    /\ last.result = prev.result
    /\ Cardinality(Owned(last.converter)) > 1

\* C8: a call of convert, whatever its outcome, leaves every converter and
\* every row as it was: no field changes, no row is created or deleted.
C8_ReadOnly == [][converter' = converter /\ line' = line]_vars

\* Two calls have been made, one returning and one failing on the scale.
C8_Witness ==
    /\ TwoCalls
    /\ Returned(prev)
    /\ last.error = "QuantityOutOfRange"
    /\ line # {}

\* Both calls were given the same arguments.
SameArguments(a, b) ==
    /\ a.converter = b.converter
    /\ a.quantity = b.quantity
    /\ a.uom_qty = b.uom_qty
    /\ a.result_uom = b.result_uom

\* The rows of converter c have pairwise different max_qty.
DistinctBounds(c) ==
    \A l1, l2 \in Owned(c) : l1.max_qty = l2.max_qty => l1 = l2

\* C10: two calls with the same arguments end the same way when the rows of
\* the converter have pairwise different max_qty; two such calls end
\* differently only when served by two rows that share the selected max_qty
\* and differ in coefficient or constant.
C10_Deterministic ==
    (TwoCalls /\ SameArguments(prev, last)) =>
        /\ DistinctBounds(last.converter) => SameOutcome(prev, last)
        /\ ~SameOutcome(prev, last) =>
            /\ Selected(prev)
            /\ Selected(last)
            /\ prev.line.max_qty = last.line.max_qty
            /\ \/ prev.line.coefficient # last.line.coefficient
               \/ prev.line.constant # last.line.constant

\* The same call made twice on a converter with two brackets, returning the
\* same value both times.
C10_Witness ==
    /\ TwoCalls
    /\ SameArguments(prev, last)
    /\ Returned(last)
    /\ Cardinality(Owned(last.converter)) > 1
    /\ DistinctBounds(last.converter)
    /\ SameOutcome(prev, last)

====
